---- MODULE Spec2Model ----
(***************************************************************************)
(* Model of the comment panel of the video-review UI                       *)
(* (src/src/components/CommentPanel.tsx).                                  *)
(*                                                                         *)
(* The state is the panel's React state that the comment view derivation   *)
(* reads (searchTerm, selectedCommentType, sortBy, filters) together with  *)
(* the `comments` prop owned by the parent.  The derivation itself         *)
(* (getTopLevelComments, getReplies) is a pure function of that state and  *)
(* is modelled by operators that follow the code step by step.             *)
(*                                                                         *)
(* Strings are sequences of UTF-16 code units (ASCII here), so that        *)
(* toLowerCase, includes and localeCompare are computed, not assumed.      *)
(* An optional property (parentId, attachments) is a field that is or is   *)
(* not in the record's DOMAIN.                                             *)
(*                                                                         *)
(* Spec follows the derivation and the query state, SpecReply the reply    *)
(* box of the panel, and SpecInput the comment input                       *)
(* (src/src/components/CommentInput.tsx) with the timers of its Send       *)
(* button.                                                                 *)
(***************************************************************************)
EXTENDS Integers, Sequences, FiniteSets, TLC

VARIABLES
  \* the `comments` prop and the state the derivation reads
  comments, searchTerm, selectedCommentType, sortBy, filters,
  \* the reply box: the comment replied to, the text typed, and the calls of
  \* the onReplyComment prop made so far
  replyingTo, replyText, onReplyCommentCalls,
  \* the attachment viewer of the panel
  selectedAttachment, selectedAttachmentIndex, isAttachmentViewerOpen,
  \* the state of the comment input
  comment, attachments, isInternal, attachTime, showEmojiPicker,
  showDrawingTools, hasDrawing,
  \* its isDrawingMode prop and window.drawingCanvas
  isDrawingMode, drawingCanvas,
  \* the clicks on Send whose timers are pending, the calls of the
  \* onAddComment prop made so far, and the number of the draft in the box
  pendingSubmits, onAddCommentCalls, draft,
  \* whether the parent passes an onCancel prop, and the number of calls
  \* handleSubmit made of it
  onCancel, onCancelCalls,
  \* whether the input is mounted, and its currentTime prop
  mounted, currentTime,
  \* drawingCheckIntervalRef.current, and the number of intervals set by the
  \* input that are not cleared
  drawingCheckIntervalRef, activeIntervals

queryVars == <<searchTerm, selectedCommentType, sortBy, filters>>
replyVars == <<replyingTo, replyText, onReplyCommentCalls>>
viewerVars == <<selectedAttachment, selectedAttachmentIndex,
                isAttachmentViewerOpen>>
panelVars == <<comments, queryVars, replyVars, viewerVars>>
hostVars == <<onCancel, onCancelCalls, mounted, currentTime>>
pollVars == <<drawingCheckIntervalRef, activeIntervals>>
inputVars == <<comment, attachments, isInternal, attachTime, showEmojiPicker,
               showDrawingTools, hasDrawing, isDrawingMode, drawingCanvas,
               pendingSubmits, onAddCommentCalls, draft, hostVars, pollVars>>
vars == <<panelVars, inputVars>>

\* ------------------------------------------------------------ bounds

\* Largest collection the parent passes as the `comments` prop.
MaxComments == 3
\* Largest number of advanced filter toggles that are on at the same time.
MaxActiveFilters == 1
\* Largest number of calls of onReplyComment that are followed.
MaxReplyCalls == 1
\* Largest number of clicks on Send whose timers are pending together.
MaxPendingSubmits == 2
\* Largest number of calls of onAddComment that are followed.
MaxAddCalls == 2
\* The forceSave timers one click on Send sets.
ForceSaveAttempts == 5
\* Largest number of code units of a draft that emojis are added to.
MaxDraftLen == 4
\* Largest number of files attached to a draft.
MaxAttachments == 1
\* currentTime takes the values 0..MaxTime
MaxTime == 2
\* Largest number of comments while the filters are cleared.
MaxClearComments == 2

\* ------------------------------------------------------------ strings

S_empty == <<>>
\* "hello"
S_hello == <<104, 101, 108, 108, 111>>
\* "internal" : the literal of the type filter
S_internal == <<105, 110, 116, 101, 114, 110, 97, 108>>
\* "internal note"
S_internal_note == S_internal \o <<32, 110, 111, 116, 101>>
\* "Internal memo"
S_Internal_memo == <<73, 110, 116, 101, 114, 110, 97, 108, 32, 109, 101, 109, 111>>
\* "general"
S_general == <<103, 101, 110, 101, 114, 97, 108>>
\* "internal reply"
S_internal_reply == S_internal \o <<32, 114, 101, 112, 108, 121>>
\* "Bob"
S_Bob == <<66, 111, 98>>
\* "Amy"
S_Amy == <<65, 109, 121>>
\* "alice"
S_alice == <<97, 108, 105, 99, 101>>

Max(S) == CHOOSE x \in S : \A y \in S : y <= x
Min(S) == CHOOSE x \in S : \A y \in S : x <= y

\* String.prototype.toLowerCase on ASCII: 'A'..'Z' (65..90) map to 'a'..'z'.
toLowerCase(s) ==
  [i \in 1..Len(s) |-> IF s[i] \in 65..90 THEN s[i] + 32 ELSE s[i]]

\* String.prototype.includes: sub occurs in s as a contiguous run of code
\* units; the empty string occurs in every string.
includes(s, sub) ==
  \E i \in 0..(Len(s) - Len(sub)) :
    \A j \in 1..Len(sub) : s[i + j] = sub[j]

\* The relational operators of the language on strings: the order of the
\* code units (what a < b means for two strings).
codeUnitLess(a, b) ==
  \/ \E i \in 1..Min({Len(a), Len(b)}) :
       /\ \A j \in 1..(i - 1) : a[j] = b[j]
       /\ a[i] < b[i]
  \/ /\ Len(a) < Len(b)
     /\ \A j \in 1..Len(a) : a[j] = b[j]

\* String.prototype.localeCompare with the default collation, on ASCII
\* letters and spaces: the strings are compared letter by letter ignoring
\* case; only when they are equal that way does case decide, the first
\* differing position putting the lower-case letter first.  -1, 0 or 1.
localeCompare(a, b) ==
  LET la == toLowerCase(a)
      lb == toLowerCase(b)
      d  == Min({i \in 1..Len(a) : a[i] # b[i]})
  IN  IF codeUnitLess(la, lb) THEN -1
      ELSE IF codeUnitLess(lb, la) THEN 1
      ELSE IF a = b THEN 0
      ELSE IF a[d] > b[d] THEN -1 ELSE 1

\* " "
S_blank == <<32>>
\* " ok "
S_ok_padded == <<32, 111, 107, 32>>
\* "ok"
S_ok == <<111, 107>>

\* One emoji (U+1F600 as its two surrogates).
S_emoji == <<55357, 56832>>

\* The code units String.prototype.trim takes for white space (ASCII).
WhiteSpace == {9, 10, 11, 12, 13, 32}

\* String.prototype.trim
trim(s) ==
  LET keep == {i \in 1..Len(s) : s[i] \notin WhiteSpace}
  IN  IF keep = {} THEN <<>> ELSE SubSeq(s, Min(keep), Max(keep))

\* ------------------------------------------------------------ comments

SortOptions == {"timecode", "oldest", "newest", "commenter"}
CommentTypes == {"all", "public", "internal"}
FilterKeys == {"annotations", "attachments", "completed", "incomplete",
               "unread", "mentionsAndReactions"}
SearchTerms == {S_empty, S_Bob, S_internal}

\* One attachment {url, type, name}; only the presence of attachments is
\* read by the derivation.
Attachment == [url |-> "blob:a", type |-> "image/png", name |-> "a.png"]
Attachment2 == [url |-> "blob:b", type |-> "application/pdf", name |-> "b.pdf"]
\* The null of a state of type AttachmentWithType | null, written as a record
\* without fields so that it compares with attachments.
nullAttachment == [f \in {} |-> ""]

\* The comment records the parent can hold.  Ids are unique and not empty
\* (they are the React keys of the rendered lists, key={comment.id} and
\* key={reply.id}); a reply carries parentId, which may name a top-level
\* comment (5, 6), a reply (7) or, when the parent is not in the collection,
\* nothing.  Timestamps, creation times and authors repeat, so that every
\* sort has ties; 1 and 2 are the comments of the specification's scenario.
CommentPool ==
  { [id |-> "1", timestamp |-> 5, text |-> S_hello, author |-> S_Bob,
     createdAt |-> 1, attachments |-> <<>>],
    [id |-> "2", timestamp |-> 2, text |-> S_internal_note, author |-> S_Amy,
     createdAt |-> 2],
    [id |-> "3", timestamp |-> -1, text |-> S_general, author |-> S_alice,
     createdAt |-> 1, attachments |-> <<Attachment>>],
    [id |-> "4", timestamp |-> 2, text |-> S_Internal_memo, author |-> S_Bob,
     createdAt |-> 2, attachments |-> <<Attachment, Attachment2>>],
    [id |-> "5", parentId |-> "1", timestamp |-> 5, text |-> S_internal_reply,
     author |-> S_Amy, createdAt |-> 2],
    [id |-> "6", parentId |-> "1", timestamp |-> -1, text |-> S_hello,
     author |-> S_alice, createdAt |-> 1, attachments |-> <<Attachment>>],
    [id |-> "7", parentId |-> "5", timestamp |-> 2, text |-> S_general,
     author |-> S_Bob, createdAt |-> 1] }

CommentIds == {c.id : c \in CommentPool}

\* !comment.parentId : the property is missing or the empty string.
noParentId(c) == ("parentId" \notin DOMAIN c) \/ c.parentId = ""

\* comment.attachments && comment.attachments.length > 0
hasAttachments(c) == ("attachments" \in DOMAIN c) /\ Len(c.attachments) > 0

\* A variant that ignores case.
isInternalText_anyCase(c) == includes(toLowerCase(c.text), S_internal)

\* comment.text.includes('internal')
isInternalText(c) == includes(c.text, S_internal)

\* A variant whose "newest" comparator is the one of "oldest".
compareFn_newestAscending(sortOption, a, b) ==
  CASE sortOption = "oldest" -> a.createdAt - b.createdAt
    [] sortOption = "newest" -> a.createdAt - b.createdAt
    [] sortOption = "commenter" -> localeCompare(a.author, b.author)
    [] OTHER -> a.timestamp - b.timestamp

\* The comparator each sort is called with.
compareFn(sortOption, a, b) ==
  CASE sortOption = "oldest" -> a.createdAt - b.createdAt
    [] sortOption = "newest" -> b.createdAt - a.createdAt
    [] sortOption = "commenter" -> localeCompare(a.author, b.author)
    [] OTHER -> a.timestamp - b.timestamp

\* A variant that is not stable: x goes in front of the elements that
\* compare equal to it.
insertSorted_beforeEquals(sorted, x, sortOption) ==
  LET p == Max({0} \cup {j \in 1..Len(sorted) :
                           compareFn(sortOption, sorted[j], x) < 0})
  IN  SubSeq(sorted, 1, p) \o <<x>> \o SubSeq(sorted, p + 1, Len(sorted))

\* One step of a stable insertion: x goes behind the last element that the
\* comparator does not put after it.
insertSorted(sorted, x, sortOption) ==
  LET p == Max({0} \cup {j \in 1..Len(sorted) :
                           compareFn(sortOption, sorted[j], x) <= 0})
  IN  SubSeq(sorted, 1, p) \o <<x>> \o SubSeq(sorted, p + 1, Len(sorted))

\* Array.prototype.sort(compareFn): a stable sort.
arraySort(s, sortOption) ==
  LET ins[i \in 0..Len(s)] ==
        IF i = 0 THEN <<>> ELSE insertSorted(ins[i - 1], s[i], sortOption)
  IN  ins[Len(s)]

\* Array.prototype.findIndex(c => c.id === id): 0-based, -1 when absent.
findIndexById(s, id) ==
  LET hits == {i \in 1..Len(s) : s[i].id = id}
  IN  IF hits = {} THEN -1 ELSE Min(hits) - 1

\* A variant that lets replies through.
topLevelOf_keepReplies(cs) == cs

\* A variant that takes a reply whose parent is not in the collection for a
\* top-level comment.
topLevelOf_orphansPromoted(cs) ==
  SelectSeq(cs, LAMBDA c :
    \/ noParentId(c)
    \/ \A j \in 1..Len(cs) : cs[j].id # c.parentId)

\* comments.filter(comment => !comment.parentId)
topLevelOf(cs) == SelectSeq(cs, noParentId)

\* A variant that lower-cases the comment but not the search term.
applySearch_termAsTyped(cs, term) ==
  IF term # <<>>
  THEN SelectSeq(cs, LAMBDA c :
         \/ includes(toLowerCase(c.text), term)
         \/ includes(toLowerCase(c.author), term))
  ELSE cs

\* The search step.
applySearch(cs, term) ==
  IF term # <<>>
  THEN SelectSeq(cs, LAMBDA c :
         \/ includes(toLowerCase(c.text), toLowerCase(term))
         \/ includes(toLowerCase(c.author), toLowerCase(term)))
  ELSE cs

\* The type filter step.
applyTypeFilter(cs, type) ==
  IF type = "public" THEN SelectSeq(cs, LAMBDA c : ~isInternalText(c))
  ELSE IF type = "internal" THEN SelectSeq(cs, isInternalText)
  ELSE cs

\* A variant that tests the list for truthiness only (an empty array is
\* truthy).
applyAdvancedFilters_truthyList(cs, flt) ==
  IF flt.attachments
  THEN SelectSeq(cs, LAMBDA c : "attachments" \in DOMAIN c)
  ELSE cs

\* A variant in which every toggle of the menu filters for attachments.
applyAdvancedFilters_anyToggle(cs, flt) ==
  IF \E k \in DOMAIN flt : flt[k] THEN SelectSeq(cs, hasAttachments) ELSE cs

\* The advanced filters step.
applyAdvancedFilters(cs, flt) ==
  IF flt.attachments THEN SelectSeq(cs, hasAttachments) ELSE cs

\* A variant whose switch has no default branch: an unknown option leaves
\* the list as the filters left it.
applySorting_noDefault(cs, sortOption) ==
  CASE sortOption = "oldest" -> arraySort(cs, "oldest")
    [] sortOption = "newest" -> arraySort(cs, "newest")
    [] sortOption = "commenter" -> arraySort(cs, "commenter")
    [] sortOption = "timecode" -> arraySort(cs, "timecode")
    [] OTHER -> cs

\* The sorting step.
applySorting(cs, sortOption) ==
  CASE sortOption = "oldest" -> arraySort(cs, "oldest")
    [] sortOption = "newest" -> arraySort(cs, "newest")
    [] sortOption = "commenter" -> arraySort(cs, "commenter")
    [] OTHER -> arraySort(cs, "timecode")

\* A variant that numbers the general comments too.
allTopLevelByTimestamp_withGeneral(cs) ==
  arraySort(SelectSeq(cs, noParentId), "timecode")

\* The numbering pass: the time-anchored top-level comments of the whole
\* collection, by timestamp.
allTopLevelByTimestamp(cs) ==
  arraySort(SelectSeq(cs, LAMBDA c : noParentId(c) /\ c.timestamp >= 0),
            "timecode")

\* A variant that forgets the + 1 (numbers from 0).
withCommentNumber_zeroBased(c, byTimestamp) ==
  ("commentNumber" :> findIndexById(byTimestamp, c.id)) @@ c

\* { ...comment, commentNumber }
withCommentNumber(c, byTimestamp) ==
  ("commentNumber" :> (findIndexById(byTimestamp, c.id) + 1)) @@ c

\* A variant that numbers the comments by their place among the visible
\* ones instead of the whole collection.
topLevelComments_numberVisible(cs, term, type, flt, sortOption) ==
  LET sortedComments ==
        applySorting(
          applyAdvancedFilters(
            applyTypeFilter(applySearch(topLevelOf(cs), term), type), flt),
          sortOption)
      byTimestamp == allTopLevelByTimestamp(sortedComments)
  IN  [k \in 1..Len(sortedComments) |->
         withCommentNumber(sortedComments[k], byTimestamp)]

\* getTopLevelComments as a function of everything it reads.
topLevelComments(cs, term, type, flt, sortOption) ==
  LET sortedComments ==
        applySorting(
          applyAdvancedFilters(
            applyTypeFilter(applySearch(topLevelOf(cs), term), type), flt),
          sortOption)
      byTimestamp == allTopLevelByTimestamp(cs)
  IN  [k \in 1..Len(sortedComments) |->
         withCommentNumber(sortedComments[k], byTimestamp)]

getTopLevelComments ==
  topLevelComments(comments, searchTerm, selectedCommentType, filters, sortBy)

\* A variant that sorts the replies by timestamp.
repliesOf_sorted(cs, parentId) ==
  arraySort(
    SelectSeq(cs, LAMBDA c :
      ("parentId" \in DOMAIN c) /\ c.parentId = parentId),
    "timecode")

\* comments.filter(comment => comment.parentId === parentId)
repliesOf(cs, parentId) ==
  SelectSeq(cs, LAMBDA c : ("parentId" \in DOMAIN c) /\ c.parentId = parentId)

getReplies(parentId) == repliesOf(comments, parentId)

\* A variant that renders the first reply of a comment only.
threadOf_firstReply(cs, c) ==
  LET r == repliesOf(cs, c.id)
  IN  <<c>> \o (IF r = <<>> THEN <<>> ELSE <<r[1]>>)

\* One rendered thread: the top-level comment, then getReplies(comment.id).
threadOf(cs, c) == <<c>> \o repliesOf(cs, c.id)

\* A variant that puts the replies through the search as well.
renderedComments_searchReplies(cs, term, type, flt, sortOption) ==
  LET v == topLevelComments(cs, term, type, flt, sortOption)
      upTo[k \in 0..Len(v)] ==
        IF k = 0 THEN <<>>
        ELSE upTo[k - 1] \o <<v[k]>>
               \o applySearch(repliesOf(cs, v[k].id), term)
  IN  upTo[Len(v)]

\* The list the panel renders: every comment of the output followed by its
\* replies.
renderedComments(cs, term, type, flt, sortOption) ==
  LET v == topLevelComments(cs, term, type, flt, sortOption)
      upTo[k \in 0..Len(v)] ==
        IF k = 0 THEN <<>> ELSE upTo[k - 1] \o threadOf(cs, v[k])
  IN  upTo[Len(v)]

\* The number badge of a rendered top-level comment.
numberLabel(c) ==
  IF c.timestamp >= 0 THEN "#" \o ToString(c.commentNumber)
  ELSE IF c.commentNumber # 0 THEN "#" \o ToString(c.commentNumber)
  ELSE "#G"

\* A variant that counts the replies too.
commentCounts_withReplies(cs) ==
  [all |-> Len(cs),
   public |-> Len(SelectSeq(cs, LAMBDA c : ~isInternalText(c))),
   internal |-> Len(SelectSeq(cs, isInternalText))]

\* A variant whose `all` never shows less than one.
commentCounts_allAtLeastOne(cs) ==
  LET topLevel == SelectSeq(cs, noParentId)
  IN  [all |-> Max({1, Len(topLevel)}),
       public |-> Len(SelectSeq(topLevel, LAMBDA c : ~isInternalText(c))),
       internal |-> Len(SelectSeq(topLevel, isInternalText))]

\* getCommentCounts as a function of the collection.
commentCounts(cs) ==
  LET topLevel == SelectSeq(cs, noParentId)
  IN  [all |-> Len(topLevel),
       public |-> Len(SelectSeq(topLevel, LAMBDA c : ~isInternalText(c))),
       internal |-> Len(SelectSeq(topLevel, isInternalText))]

getCommentCounts == commentCounts(comments)

\* ------------------------------------------------- arrays and identity

\* An array with its identity: ref is "comments" for the array the parent
\* passed down as the prop and "new" for an array made during a call.
commentsProp(cs) == [ref |-> "comments", items |-> cs]

\* A variant that removes the rejected elements from the receiver itself.
arrayFilter_inPlace(a, kept) == [ref |-> a.ref, items |-> kept]

\* Array.prototype.filter: the kept elements in a new array; the receiver
\* is left as it was.
arrayFilter(a, kept) == [ref |-> "new", items |-> kept]

\* Array.prototype.sort: sorts the receiver in place and returns it.
arraySortInPlace(a, sortOption) ==
  [ref |-> a.ref, items |-> applySorting(a.items, sortOption)]

\* What the prop array holds once the steps that produced a have run.
propAfter(cs, a) == IF a.ref = "comments" THEN a.items ELSE cs

\* A variant whose first step is `let filteredComments = comments` when the
\* collection has no reply to drop.
commentsAfterGetTopLevelComments_sortsProp(cs, term, type, flt, sortOption) ==
  IF topLevelOf(cs) = cs /\ term = <<>> /\ type \notin {"public", "internal"}
       /\ ~flt.attachments
  THEN applySorting(cs, sortOption)
  ELSE cs

\* The prop array after getTopLevelComments() has run: every filter step
\* hands on a new array, the sort works in place on the array it is given,
\* and the numbering pass filters the prop before it sorts.
commentsAfterGetTopLevelComments(cs, term, type, flt, sortOption) ==
  LET filteredComments == arrayFilter(commentsProp(cs), topLevelOf(cs))
      searched ==
        IF term # <<>>
        THEN arrayFilter(filteredComments,
                         applySearch(filteredComments.items, term))
        ELSE filteredComments
      typed ==
        IF type \in {"public", "internal"}
        THEN arrayFilter(searched, applyTypeFilter(searched.items, type))
        ELSE searched
      advanced ==
        IF flt.attachments
        THEN arrayFilter(typed, applyAdvancedFilters(typed.items, flt))
        ELSE typed
      afterSort == propAfter(cs, arraySortInPlace(advanced, sortOption))
      allTopLevelComments ==
        arraySortInPlace(
          arrayFilter(commentsProp(afterSort),
                      SelectSeq(afterSort, LAMBDA c :
                        noParentId(c) /\ c.timestamp >= 0)),
          "timecode")
  IN  propAfter(afterSort, allTopLevelComments)

\* The prop array after getReplies(parentId) has run.
commentsAfterGetReplies(cs, parentId) ==
  propAfter(cs, arrayFilter(commentsProp(cs), repliesOf(cs, parentId)))

\* The prop array after getCommentCounts() has run: one filter over the
\* prop, two over its result.
commentsAfterGetCommentCounts(cs) ==
  LET topLevel == arrayFilter(commentsProp(cs), SelectSeq(cs, noParentId))
      public == arrayFilter(topLevel,
                  SelectSeq(topLevel.items, LAMBDA c : ~isInternalText(c)))
      internal == arrayFilter(topLevel,
                    SelectSeq(topLevel.items, isInternalText))
  IN  propAfter(propAfter(propAfter(cs, topLevel), public), internal)

\* The prop array after one render of the panel: the counts for the type
\* filter, the output, and the replies of every comment of the output.
commentsAfterRender(cs, term, type, flt, sortOption) ==
  LET c1 == commentsAfterGetCommentCounts(cs)
      c2 == commentsAfterGetTopLevelComments(c1, term, type, flt, sortOption)
      v == topLevelComments(c2, term, type, flt, sortOption)
      upTo[k \in 0..Len(v)] ==
        IF k = 0 THEN c2 ELSE commentsAfterGetReplies(upTo[k - 1], v[k].id)
  IN  upTo[Len(v)]

\* ------------------------------------------------------------ state

\* useState<string | null>(null)
null == "null"

\* What the user may have typed into the reply box.
ReplyTexts == {S_empty, S_blank, S_ok_padded}

NoFilters == [k \in FilterKeys |-> FALSE]

activeFilters(flt) == Cardinality({k \in FilterKeys : flt[k]})

Init ==
  /\ comments = <<>>
  /\ searchTerm = S_empty
  /\ selectedCommentType = "all"
  /\ sortBy = "timecode"
  /\ filters = NoFilters
  /\ replyingTo = null
  /\ replyText = S_empty
  /\ onReplyCommentCalls = <<>>
  /\ selectedAttachment = nullAttachment
  /\ selectedAttachmentIndex = 0
  /\ isAttachmentViewerOpen = FALSE
  /\ comment = S_empty
  /\ attachments = <<>>
  /\ isInternal = FALSE
  /\ attachTime = TRUE
  /\ showEmojiPicker = FALSE
  /\ showDrawingTools = FALSE
  /\ hasDrawing = FALSE
  /\ isDrawingMode = FALSE
  /\ drawingCanvas = "none"
  /\ pendingSubmits = <<>>
  /\ onAddCommentCalls = <<>>
  /\ draft = 1
  /\ onCancel = FALSE
  /\ onCancelCalls = 0
  /\ mounted = TRUE
  /\ currentTime = 0
  /\ drawingCheckIntervalRef = null
  /\ activeIntervals = 0

\* The parent adds a comment or a reply to the collection it passes down.
ParentAddsComment ==
  /\ Len(comments) < MaxComments
  /\ \E c \in CommentPool :
       /\ \A i \in 1..Len(comments) : comments[i].id # c.id
       /\ comments' = Append(comments, c)
  /\ UNCHANGED <<queryVars, replyVars, viewerVars,
                 inputVars>>

\* onDeleteComment(id): the parent drops the comment with that id.
ParentDeletesComment ==
  /\ \E i \in 1..Len(comments) :
       comments' = SubSeq(comments, 1, i - 1)
                     \o SubSeq(comments, i + 1, Len(comments))
  /\ UNCHANGED <<queryVars, replyVars, viewerVars,
                 inputVars>>

setSearchTerm ==
  /\ \E s \in SearchTerms : searchTerm' = s
  /\ UNCHANGED <<comments, selectedCommentType, sortBy, filters, replyVars, viewerVars,
                 inputVars>>

setSelectedCommentType ==
  /\ \E t \in CommentTypes : selectedCommentType' = t
  /\ UNCHANGED <<comments, searchTerm, sortBy, filters, replyVars, viewerVars,
                 inputVars>>

setSortBy ==
  /\ \E o \in SortOptions : sortBy' = o
  /\ UNCHANGED <<comments, searchTerm, selectedCommentType, filters,
                 replyVars, viewerVars,
                 inputVars>>

\* The filter menu hands back the filters with one toggle flipped.
setFilters ==
  /\ \E k \in FilterKeys :
       /\ filters' = [filters EXCEPT ![k] = ~@]
       /\ activeFilters(filters') <= MaxActiveFilters
  /\ UNCHANGED <<comments, searchTerm, selectedCommentType, sortBy,
                 replyVars, viewerVars,
                 inputVars>>

\* A variant of handleClearFilters that also closes the reply box.
handleClearFilters_closesReply ==
  /\ filters' = NoFilters
  /\ searchTerm' = S_empty
  /\ selectedCommentType' = "all"
  /\ sortBy' = "timecode"
  /\ replyingTo' = null
  /\ replyText' = S_empty
  /\ UNCHANGED <<comments, onReplyCommentCalls, viewerVars, inputVars>>

\* The Clear filters control: the four setters of the query state.
handleClearFilters ==
  /\ filters' = NoFilters
  /\ searchTerm' = S_empty
  /\ selectedCommentType' = "all"
  /\ sortBy' = "timecode"
  /\ UNCHANGED <<comments, replyVars, viewerVars,
                 inputVars>>

\* One render of the panel with the state as it is.
Render ==
  /\ comments' = commentsAfterRender(comments, searchTerm,
                                     selectedCommentType, filters, sortBy)
  /\ UNCHANGED <<queryVars, replyVars, viewerVars,
                 inputVars>>

Next ==
  \/ ParentAddsComment
  \/ ParentDeletesComment
  \/ setSearchTerm
  \/ setSelectedCommentType
  \/ setSortBy
  \/ setFilters
  \/ handleClearFilters
  \/ Render

Spec == Init /\ [][Next]_vars

\* ------------------------------------------------------------ replying

\* A variant in which the replies carry a Reply button and a reply box too.
replyTargets_withReplies(cs, term, type, flt, sortOption) ==
  LET r == renderedComments(cs, term, type, flt, sortOption)
  IN  {r[k].id : k \in 1..Len(r)}

\* The ids of the comments rendered with a Reply button and, while
\* replyingTo === comment.id, with the reply box: the comments that
\* getTopLevelComments().map goes over.
replyTargets(cs, term, type, flt, sortOption) ==
  LET v == topLevelComments(cs, term, type, flt, sortOption)
  IN  {v[k].id : k \in 1..Len(v)}

\* The Reply button of a rendered comment.
setReplyingTo ==
  /\ \E id \in replyTargets(comments, searchTerm, selectedCommentType,
                            filters, sortBy) :
       replyingTo' = id
  /\ UNCHANGED <<comments, queryVars, replyText, onReplyCommentCalls, viewerVars,
                 inputVars>>

\* The user edits the text of the reply box that is shown.
setReplyText ==
  /\ replyingTo \in replyTargets(comments, searchTerm, selectedCommentType,
                                 filters, sortBy)
  /\ \E t \in ReplyTexts : replyText' = t
  /\ UNCHANGED <<comments, queryVars, replyingTo, onReplyCommentCalls, viewerVars,
                 inputVars>>

\* A variant that tests the text as typed: if (replyText).
handleReply_untrimmed ==
  /\ Len(onReplyCommentCalls) < MaxReplyCalls
  /\ replyText # <<>>
  /\ \E parentId \in replyTargets(comments, searchTerm, selectedCommentType,
                                  filters, sortBy) :
       /\ replyingTo = parentId
       /\ onReplyCommentCalls' =
            Append(onReplyCommentCalls,
                   [parentId |-> parentId, text |-> trim(replyText)])
       /\ replyText' = S_empty
       /\ replyingTo' = null
  /\ UNCHANGED <<comments, queryVars, viewerVars,
                 inputVars>>

\* The Send button of the reply box that is shown: handleReply(comment.id).
\* The button is disabled while the trimmed text is empty.
handleReply ==
  /\ Len(onReplyCommentCalls) < MaxReplyCalls
  /\ trim(replyText) # <<>>
  /\ \E parentId \in replyTargets(comments, searchTerm, selectedCommentType,
                                  filters, sortBy) :
       /\ replyingTo = parentId
       /\ onReplyCommentCalls' =
            Append(onReplyCommentCalls,
                   [parentId |-> parentId, text |-> trim(replyText)])
       /\ replyText' = S_empty
       /\ replyingTo' = null
  /\ UNCHANGED <<comments, queryVars, viewerVars,
                 inputVars>>

\* The Cancel button of the reply box that is shown.
handleCancel ==
  /\ replyingTo \in replyTargets(comments, searchTerm, selectedCommentType,
                                 filters, sortBy)
  /\ replyText' = S_empty
  /\ replyingTo' = null
  /\ UNCHANGED <<comments, queryVars, onReplyCommentCalls, viewerVars,
                 inputVars>>

\* The panel while the user replies: the parent adds and deletes comments,
\* the user searches, sorts, opens a reply box, types, sends and cancels.
NextReply ==
  \/ ParentAddsComment
  \/ ParentDeletesComment
  \/ setSearchTerm
  \/ setSortBy
  \/ setReplyingTo
  \/ setReplyText
  \/ handleReply
  \/ handleCancel

SpecReply == Init /\ [][NextReply]_vars

\* ---------------------------------------------------- attachment viewer

\* A click on the button of attachment number index (from 0) of a rendered
\* comment or reply opens the viewer on it.
handleAttachmentClick ==
  /\ LET r == renderedComments(comments, searchTerm, selectedCommentType,
                               filters, sortBy)
     IN  \E k \in 1..Len(r) :
           /\ "attachments" \in DOMAIN r[k]
           /\ \E index \in 0..(Len(r[k].attachments) - 1) :
                /\ selectedAttachment' = r[k].attachments[index + 1]
                /\ selectedAttachmentIndex' = index
  /\ isAttachmentViewerOpen' = TRUE
  /\ UNCHANGED <<comments, queryVars, replyVars, inputVars>>

\* The viewer's onClose.
handleCloseAttachmentViewer ==
  /\ isAttachmentViewerOpen
  /\ isAttachmentViewerOpen' = FALSE
  /\ selectedAttachment' = nullAttachment
  /\ selectedAttachmentIndex' = 0
  /\ UNCHANGED <<comments, queryVars, replyVars, inputVars>>

\* The collection may take one more comment.
RoomForComment == Len(comments) < MaxClearComments

\* The panel with all its own state in use: the query, the reply box and the
\* attachment viewer, over a collection of up to MaxClearComments comments.
NextClear ==
  \/ RoomForComment /\ ParentAddsComment
  \/ setSearchTerm
  \/ setSelectedCommentType
  \/ setSortBy
  \/ setFilters
  \/ handleClearFilters
  \/ setReplyingTo
  \/ setReplyText
  \/ handleAttachmentClick
  \/ handleCloseAttachmentViewer

SpecClear == Init /\ [][NextClear]_vars

\* ------------------------------------------------------- comment input
\* (src/src/components/CommentInput.tsx, mounted by the panel without an
\* onCancel prop)

\* What the user may have typed into the comment box.
DraftTexts == {S_empty, S_blank, S_ok_padded}

\* window.drawingCanvas: absent, present without a drawing on the current
\* frame, or present with one.
CanvasStates == {"none", "clean", "drawn"}

\* The Textarea's onChange.
setComment ==
  /\ mounted
  /\ \E t \in DraftTexts : comment' = t
  /\ UNCHANGED <<attachments, isInternal, attachTime, showEmojiPicker,
                 showDrawingTools, hasDrawing, isDrawingMode, drawingCanvas,
                 pendingSubmits, onAddCommentCalls, draft, hostVars, pollVars, panelVars>>

\* The polling timer of the input: p.ref is drawingCheckIntervalRef.current
\* (null or the interval it holds), p.active the number of intervals that
\* are set and not cleared.
\* if (ref.current) { clearInterval(ref.current); ref.current = null }: the
\* cleanup of the polling effect, and the else branch of its body.
clearPollInterval(p) ==
  IF p.ref # null THEN [ref |-> null, active |-> p.active - 1] ELSE p

\* The body of the polling effect in a render whose isDrawingMode is mode.
pollEffectBody(p, mode) ==
  IF mode THEN [ref |-> "interval", active |-> p.active + 1]
          ELSE clearPollInterval(p)

\* A variant in which a re-run of the effect is not preceded by its cleanup.
pollEffectRerun_noCleanup(p, mode) == pollEffectBody(p, mode)

\* A dependency of the polling effect changed: React runs the cleanup of the
\* last run, then the body.
pollEffectRerun(p, mode) == pollEffectBody(clearPollInterval(p), mode)

\* The polling timer as the state holds it.
pollState == [ref |-> drawingCheckIntervalRef, active |-> activeIntervals]

\* The polling effect runs again if one of its dependencies (isDrawingMode,
\* currentTime, hasDrawing) changed in this step; mode is the new
\* isDrawingMode.
runPollEffect(changed, mode) ==
  LET p == IF changed THEN pollEffectRerun(pollState, mode) ELSE pollState
  IN  /\ drawingCheckIntervalRef' = p.ref
      /\ activeIntervals' = p.active

\* The parent switches drawing mode on or off; when it goes off, the effect
\* on isDrawingMode closes the drawing tools.
ParentSetsDrawingMode ==
  /\ mounted
  /\ isDrawingMode' = ~isDrawingMode
  /\ showDrawingTools' = IF isDrawingMode' THEN showDrawingTools ELSE FALSE
  /\ runPollEffect(TRUE, isDrawingMode')
  /\ UNCHANGED <<comment, attachments, isInternal, attachTime,
                 showEmojiPicker, hasDrawing, drawingCanvas, pendingSubmits,
                 onAddCommentCalls, draft, hostVars, panelVars>>

\* The canvas appears, disappears, gets a drawing or loses it.
CanvasChanges ==
  /\ \E s \in CanvasStates \ {drawingCanvas} : drawingCanvas' = s
  /\ UNCHANGED <<comment, attachments, isInternal, attachTime,
                 showEmojiPicker, showDrawingTools, hasDrawing, isDrawingMode,
                 pendingSubmits, onAddCommentCalls, draft, hostVars, pollVars, panelVars>>

\* One run of checkForDrawings, at the start of drawing mode or on a tick of
\* its interval.
checkForDrawings ==
  /\ mounted
  /\ isDrawingMode
  /\ drawingCanvas # "none"
  /\ hasDrawing' = (drawingCanvas = "drawn")
  /\ runPollEffect(hasDrawing' # hasDrawing, isDrawingMode)
  /\ UNCHANGED <<comment, attachments, isInternal, attachTime,
                 showEmojiPicker, showDrawingTools, isDrawingMode,
                 drawingCanvas, pendingSubmits, onAddCommentCalls, draft,
                 hostVars, panelVars>>

\* An item of the Public / Internal dropdown.
setIsInternal ==
  /\ mounted
  /\ \E b \in BOOLEAN : isInternal' = b
  /\ UNCHANGED <<comment, attachments, attachTime, showEmojiPicker,
                 showDrawingTools, hasDrawing, isDrawingMode, drawingCanvas,
                 pendingSubmits, onAddCommentCalls, draft, hostVars, pollVars, panelVars>>

toggleAttachTime ==
  /\ mounted
  /\ attachTime' = ~attachTime
  /\ UNCHANGED <<comment, attachments, isInternal, showEmojiPicker,
                 showDrawingTools, hasDrawing, isDrawingMode, drawingCanvas,
                 pendingSubmits, onAddCommentCalls, draft, hostVars, pollVars, panelVars>>

\* The file input hands over one chosen file.
handleFileUpload ==
  /\ mounted
  /\ Len(attachments) < MaxAttachments
  /\ attachments' = attachments \o <<Attachment>>
  /\ UNCHANGED <<comment, isInternal, attachTime, showEmojiPicker,
                 showDrawingTools, hasDrawing, isDrawingMode, drawingCanvas,
                 pendingSubmits, onAddCommentCalls, draft, hostVars, pollVars, panelVars>>

\* The X of a listed attachment.
removeAttachment ==
  /\ mounted
  /\ \E index \in 1..Len(attachments) :
       attachments' = SubSeq(attachments, 1, index - 1)
                        \o SubSeq(attachments, index + 1, Len(attachments))
  /\ UNCHANGED <<comment, isInternal, attachTime, showEmojiPicker,
                 showDrawingTools, hasDrawing, isDrawingMode, drawingCanvas,
                 pendingSubmits, onAddCommentCalls, draft, hostVars, pollVars, panelVars>>

\* The emoji button.
handleEmojiClick ==
  /\ mounted
  /\ showEmojiPicker' = ~showEmojiPicker
  /\ UNCHANGED <<comment, attachments, isInternal, attachTime,
                 showDrawingTools, hasDrawing, isDrawingMode, drawingCanvas,
                 pendingSubmits, onAddCommentCalls, draft, hostVars, pollVars,
                 panelVars>>

\* The emoji picker, which is rendered while showEmojiPicker, closes itself.
closeEmojiPicker ==
  /\ mounted
  /\ showEmojiPicker
  /\ showEmojiPicker' = FALSE
  /\ UNCHANGED <<comment, attachments, isInternal, attachTime,
                 showDrawingTools, hasDrawing, isDrawingMode, drawingCanvas,
                 pendingSubmits, onAddCommentCalls, draft, hostVars, pollVars,
                 panelVars>>

\* An emoji of the picker is chosen: setComment(comment + emoji).
addEmoji ==
  /\ mounted
  /\ showEmojiPicker
  /\ Len(comment) + Len(S_emoji) <= MaxDraftLen
  /\ comment' = comment \o S_emoji
  /\ showEmojiPicker' = FALSE
  /\ UNCHANGED <<attachments, isInternal, attachTime, showDrawingTools,
                 hasDrawing, isDrawingMode, drawingCanvas, pendingSubmits,
                 onAddCommentCalls, draft, hostVars, pollVars, panelVars>>

\* The drawing button: outside drawing mode it asks the parent to start it
\* (onStartDrawing, if given) and opens the tools menu; in drawing mode it
\* toggles the menu.  The parent's onStartDrawing either switches drawing
\* mode on, in the same update, or leaves it off, as does a parent that
\* passes no onStartDrawing.
handleDrawingClick ==
  /\ mounted
  /\ IF ~isDrawingMode
     THEN /\ \E started \in BOOLEAN : isDrawingMode' = started
          /\ showDrawingTools' = TRUE
     ELSE /\ showDrawingTools' = ~showDrawingTools
          /\ UNCHANGED isDrawingMode
  /\ runPollEffect(isDrawingMode' # isDrawingMode, isDrawingMode')
  /\ UNCHANGED <<comment, attachments, isInternal, attachTime,
                 showEmojiPicker, hasDrawing, drawingCanvas, pendingSubmits,
                 onAddCommentCalls, draft, hostVars, panelVars>>

\* The tools menu, which is rendered while showDrawingTools, closes itself.
closeDrawingTools ==
  /\ mounted
  /\ showDrawingTools
  /\ showDrawingTools' = FALSE
  /\ UNCHANGED <<comment, attachments, isInternal, attachTime,
                 showEmojiPicker, hasDrawing, isDrawingMode, drawingCanvas,
                 pendingSubmits, onAddCommentCalls, draft, hostVars, pollVars,
                 panelVars>>

\* The parent renders the input with or without an onCancel prop.
ParentPassesOnCancel ==
  /\ mounted
  /\ onCancel' = ~onCancel
  /\ UNCHANGED <<comment, attachments, isInternal, attachTime,
                 showEmojiPicker, showDrawingTools, hasDrawing, isDrawingMode,
                 drawingCanvas, pendingSubmits, onAddCommentCalls, draft,
                 onCancelCalls, mounted, currentTime, pollVars,
                 panelVars>>

\* The parent renders the input with another currentTime (the video plays or
\* is sought), a dependency of the polling effect.
ParentSetsCurrentTime ==
  /\ mounted
  /\ \E t \in (0..MaxTime) \ {currentTime} : currentTime' = t
  /\ runPollEffect(TRUE, isDrawingMode)
  /\ UNCHANGED <<comment, attachments, isInternal, attachTime,
                 showEmojiPicker, showDrawingTools, hasDrawing, isDrawingMode,
                 drawingCanvas, pendingSubmits, onAddCommentCalls, draft,
                 onCancel, onCancelCalls, mounted, panelVars>>

\* The input is unmounted: React runs the cleanup of the polling effect.
Unmount ==
  /\ mounted
  /\ mounted' = FALSE
  /\ drawingCheckIntervalRef' = clearPollInterval(pollState).ref
  /\ activeIntervals' = clearPollInterval(pollState).active
  /\ UNCHANGED <<comment, attachments, isInternal, attachTime,
                 showEmojiPicker, showDrawingTools, hasDrawing, isDrawingMode,
                 drawingCanvas, pendingSubmits, onAddCommentCalls, draft,
                 onCancel, onCancelCalls, currentTime, panelVars>>

\* What a call of handleSubmit keeps in the closures of its timers: the
\* state of the render the click was made in.
submitClosure ==
  [comment |-> comment, attachments |-> attachments,
   isInternal |-> isInternal, attachTime |-> attachTime,
   hasDrawing |-> hasDrawing, onCancel |-> onCancel, draft |-> draft,
   saves |-> 0]

\* A variant that reads the state when the timer fires, not the closure.
addCommentCall_currentState(c) ==
  [text |-> trim(comment), attachments |-> attachments,
   isInternal |-> isInternal, attachTime |-> attachTime,
   hasDrawing |-> hasDrawing, draft |-> c.draft]

\* onAddComment(comment.trim(), attachments, isInternal, attachTime,
\* hasDrawing) with the values of closure c.
addCommentCall(c) ==
  [text |-> trim(c.comment), attachments |-> c.attachments,
   isInternal |-> c.isInternal, attachTime |-> c.attachTime,
   hasDrawing |-> c.hasDrawing, draft |-> c.draft]

\* A variant that leaves the Public / Internal choice as it was.
resetInput_keepsInternal ==
  /\ comment' = S_empty
  /\ attachments' = <<>>
  /\ isInternal' = isInternal
  /\ attachTime' = TRUE
  /\ hasDrawing' = FALSE
  /\ showDrawingTools' = FALSE
  /\ showEmojiPicker' = FALSE
  /\ draft' = draft + 1
  /\ runPollEffect(hasDrawing, isDrawingMode)

\* The seven setters after onAddComment; the next text typed is a new draft.
\* setHasDrawing(false) re-runs the polling effect if hasDrawing was true.
resetInput ==
  /\ comment' = S_empty
  /\ attachments' = <<>>
  /\ isInternal' = FALSE
  /\ attachTime' = TRUE
  /\ hasDrawing' = FALSE
  /\ showDrawingTools' = FALSE
  /\ showEmojiPicker' = FALSE
  /\ draft' = draft + 1
  /\ runPollEffect(hasDrawing, isDrawingMode)

\* if (onCancel) onCancel(), with the prop closure c holds.
callOnCancel(c) ==
  onCancelCalls' = IF c.onCancel THEN onCancelCalls + 1 ELSE onCancelCalls

\* A click on Send (enabled while comment.trim() is not empty).  With a
\* canvas and a drawing, five forceSave timers and the 500 ms submit timer
\* are set and no state changes; otherwise the comment is handed over and
\* the input reset at once.
handleSubmit ==
  /\ mounted
  /\ trim(comment) # <<>>
  /\ IF drawingCanvas # "none" /\ hasDrawing
     THEN /\ Len(pendingSubmits) < MaxPendingSubmits
          /\ pendingSubmits' = Append(pendingSubmits, submitClosure)
          /\ UNCHANGED <<comment, attachments, isInternal, attachTime,
                         showEmojiPicker, showDrawingTools, hasDrawing,
                         onAddCommentCalls, draft, onCancelCalls,
                         pollVars>>
     ELSE /\ Len(onAddCommentCalls) < MaxAddCalls
          /\ onAddCommentCalls' =
               Append(onAddCommentCalls, addCommentCall(submitClosure))
          /\ resetInput
          /\ callOnCancel(submitClosure)
          /\ UNCHANGED pendingSubmits
  /\ UNCHANGED <<isDrawingMode, drawingCanvas, onCancel, mounted,
                 currentTime, panelVars>>

\* One of the forceSave timers of a click fires (delays 0, 50, ..., 200 ms).
\* The k-th timer of a later click is due after the k-th of an earlier one.
forceSaveTimerFires ==
  /\ \E i \in 1..Len(pendingSubmits) :
       /\ pendingSubmits[i].saves < ForceSaveAttempts
       /\ i > 1 => pendingSubmits[i - 1].saves > pendingSubmits[i].saves
       /\ pendingSubmits' =
            [pendingSubmits EXCEPT ![i].saves = @ + 1]
  /\ UNCHANGED <<comment, attachments, isInternal, attachTime,
                 showEmojiPicker, showDrawingTools, hasDrawing, isDrawingMode,
                 drawingCanvas, onAddCommentCalls, draft, hostVars, pollVars, panelVars>>

\* The 500 ms timer of the earliest pending click fires, after its five
\* forceSave timers: onAddComment with the values the click saw, then the
\* reset.
submitTimerFires ==
  /\ pendingSubmits # <<>>
  /\ pendingSubmits[1].saves = ForceSaveAttempts
  /\ Len(onAddCommentCalls) < MaxAddCalls
  /\ onAddCommentCalls' =
       Append(onAddCommentCalls, addCommentCall(pendingSubmits[1]))
  /\ pendingSubmits' = Tail(pendingSubmits)
  /\ resetInput
  /\ callOnCancel(pendingSubmits[1])
  /\ UNCHANGED <<isDrawingMode, drawingCanvas, onCancel, mounted,
                 currentTime, panelVars>>

\* The comment input: typing, drawing mode, the canvas, Send and its timers.
NextInput ==
  \/ setComment
  \/ ParentSetsDrawingMode
  \/ CanvasChanges
  \/ checkForDrawings
  \/ handleSubmit
  \/ forceSaveTimerFires
  \/ submitTimerFires

SpecInput == Init /\ [][NextInput]_vars

\* No click on Send has been followed yet.
NothingSubmitted == pendingSubmits = <<>> /\ onAddCommentCalls = <<>>

\* Submitting a comment that has a drawing: the input is filled in, also
\* while the timers of a click are pending; one click on Send is followed.
NextDrawingSubmit ==
  \/ setComment
  \/ setIsInternal
  \/ toggleAttachTime
  \/ handleFileUpload
  \/ removeAttachment
  \/ ParentSetsDrawingMode
  \/ CanvasChanges
  \/ checkForDrawings
  \/ NothingSubmitted /\ handleSubmit
  \/ forceSaveTimerFires
  \/ submitTimerFires

SpecDrawingSubmit == Init /\ [][NextDrawingSubmit]_vars

\* Send would take the path without timers.
NoDrawingToSave == ~(drawingCanvas # "none" /\ hasDrawing)

\* Composing and sending a comment: every control of the input, the parent's
\* props and the canvas; one click on Send is followed, made while there is
\* no drawing to save.
NextCompose ==
  \/ setComment
  \/ addEmoji
  \/ setIsInternal
  \/ toggleAttachTime
  \/ handleFileUpload
  \/ removeAttachment
  \/ handleEmojiClick
  \/ closeEmojiPicker
  \/ handleDrawingClick
  \/ closeDrawingTools
  \/ ParentSetsDrawingMode
  \/ ParentPassesOnCancel
  \/ CanvasChanges
  \/ checkForDrawings
  \/ NothingSubmitted /\ NoDrawingToSave /\ handleSubmit

SpecCompose == Init /\ [][NextCompose]_vars

\* Drawing mode: the drawing button and its menu, the parent's isDrawingMode
\* and currentTime, the canvas and its polling, a comment sent while there
\* is no drawing to save, and unmounting.
NextDrawing ==
  \/ handleDrawingClick
  \/ closeDrawingTools
  \/ ParentSetsDrawingMode
  \/ ParentSetsCurrentTime
  \/ CanvasChanges
  \/ checkForDrawings
  \/ setComment
  \/ NothingSubmitted /\ NoDrawingToSave /\ handleSubmit
  \/ Unmount

SpecDrawing == Init /\ [][NextDrawing]_vars

TypeOK ==
  /\ Len(comments) <= MaxComments
  /\ \A i \in 1..Len(comments) : comments[i] \in CommentPool
  /\ searchTerm \in SearchTerms
  /\ selectedCommentType \in CommentTypes
  /\ sortBy \in SortOptions
  /\ filters \in [FilterKeys -> BOOLEAN]
  /\ replyingTo \in CommentIds \cup {null}
  /\ replyText \in ReplyTexts
  /\ selectedAttachment \in {nullAttachment, Attachment, Attachment2}
  /\ selectedAttachmentIndex \in 0..1
  /\ isAttachmentViewerOpen \in BOOLEAN
  /\ Len(onReplyCommentCalls) <= MaxReplyCalls
  /\ Len(comment) <= MaxDraftLen
  /\ Len(attachments) <= MaxAttachments
  /\ {isInternal, attachTime, showEmojiPicker, showDrawingTools, hasDrawing,
      isDrawingMode} \subseteq BOOLEAN
  /\ drawingCanvas \in CanvasStates
  /\ Len(pendingSubmits) <= MaxPendingSubmits
  /\ \A i \in 1..Len(pendingSubmits) :
       pendingSubmits[i].saves \in 0..ForceSaveAttempts
  /\ Len(onAddCommentCalls) <= MaxAddCalls
  /\ draft \in 1..(MaxAddCalls + 1)
  /\ onCancel \in BOOLEAN
  /\ onCancelCalls \in 0..MaxAddCalls
  /\ mounted \in BOOLEAN
  /\ currentTime \in 0..MaxTime
  /\ drawingCheckIntervalRef \in {null, "interval"}
  /\ activeIntervals \in Nat

\* ------------------------------------------------------------ properties

\* What the properties say about a comment, stated on the record itself.
IsReply(c) == "parentId" \in DOMAIN c
IsTimeAnchored(c) == c.timestamp >= 0
UniqueIds(cs) == \A i, j \in 1..Len(cs) : cs[i].id = cs[j].id => i = j
\* The place of the comment with this id in the collection.
IndexOf(cs, id) == CHOOSE i \in 1..Len(cs) : cs[i].id = id
\* A view entry without the number attached to it.
WithoutNumber(v) == [x \in (DOMAIN v) \ {"commentNumber"} |-> v[x]]
\* The places of the time-anchored top-level comments of the collection.
AnchoredTopLevel(cs) ==
  {i \in 1..Len(cs) : ~IsReply(cs[i]) /\ IsTimeAnchored(cs[i])}
\* Rank of place i among them: by timestamp, ties by place.
RankByTimestamp(cs, i) ==
  1 + Cardinality({j \in AnchoredTopLevel(cs) :
        \/ cs[j].timestamp < cs[i].timestamp
        \/ (cs[j].timestamp = cs[i].timestamp /\ j < i)})
\* Two code units are the same letter up to case, or the same code unit.
SameIgnoringCase(x, y) ==
  \/ x = y
  \/ x \in 65..90 /\ y = x + 32
  \/ y \in 65..90 /\ x = y + 32
\* s contains t when case is ignored.
ContainsIgnoringCase(s, t) ==
  \E i \in 0..(Len(s) - Len(t)) :
    \A j \in 1..Len(t) : SameIgnoringCase(s[i + j], t[j])
MatchesSearch(c, term) ==
  \/ term = <<>>
  \/ ContainsIgnoringCase(c.text, term)
  \/ ContainsIgnoringCase(c.author, term)
MatchesType(c, type) ==
  /\ type = "public" => ~includes(c.text, S_internal)
  /\ type = "internal" => includes(c.text, S_internal)
MatchesAdvanced(c, flt) ==
  flt.attachments => ("attachments" \in DOMAIN c /\ c.attachments # <<>>)

\* C1: numbering stability.  For the collection as it is, the number a
\* time-anchored comment carries in the output under the current search
\* term, type filter, advanced filters and sort option is the number it
\* carries under every other sort option and under the query with no search
\* term, no type filter and no advanced filter (where every top-level
\* comment is shown): so any two queries that show it agree on its number.
C1_NumberingStable ==
  UniqueIds(comments) =>
    LET v == getTopLevelComments
    IN  \A o \in SortOptions :
          LET ref == topLevelComments(comments, S_empty, "all", NoFilters, o)
          IN  \A k \in 1..Len(v) :
                IsTimeAnchored(v[k]) =>
                  \E l \in 1..Len(ref) :
                    /\ ref[l].id = v[k].id
                    /\ ref[l].commentNumber = v[k].commentNumber

\* A search for "Bob" shows one comment only, and it still carries #2.
C1_Witness ==
  /\ searchTerm = S_Bob
  /\ sortBy = "newest"
  /\ Len(getTopLevelComments) = 1
  /\ getTopLevelComments[1].commentNumber = 2

\* C2: numbering values.  With n time-anchored top-level comments in the
\* collection, each one shown carries its rank by ascending timestamp over
\* the whole collection (ties in collection order), and with no filter
\* active the numbers shown are exactly 1..n, each once.
C2_NumberingValues ==
  UniqueIds(comments) =>
    LET v == getTopLevelComments
        all == topLevelComments(comments, S_empty, "all", NoFilters, sortBy)
        anchored == {k \in 1..Len(all) : IsTimeAnchored(all[k])}
        n == Cardinality(AnchoredTopLevel(comments))
    IN  /\ \A k \in 1..Len(v) :
             IsTimeAnchored(v[k]) =>
               v[k].commentNumber
                 = RankByTimestamp(comments, IndexOf(comments, v[k].id))
        /\ {all[k].commentNumber : k \in anchored} = 1..n
        /\ \A k, l \in anchored :
             all[k].commentNumber = all[l].commentNumber => k = l

\* Timestamps 5 (id 1) then 2 (id 2) in the collection: shown as
\* [id 2 (#1), id 1 (#2)] under timecode / all.
C2_Witness ==
  /\ Len(comments) = 2
  /\ comments[1].id = "1" /\ comments[1].timestamp = 5
  /\ comments[2].id = "2" /\ comments[2].timestamp = 2
  /\ sortBy = "timecode" /\ selectedCommentType = "all"
  /\ searchTerm = S_empty /\ filters = NoFilters
  /\ Len(getTopLevelComments) = 2
  /\ getTopLevelComments[1].id = "2"
  /\ getTopLevelComments[1].commentNumber = 1
  /\ getTopLevelComments[2].id = "1"
  /\ getTopLevelComments[2].commentNumber = 2

\* C3: the output is exactly the filtered top-level comments.  A comment of
\* the collection is in the output once if it has no parentId and passes
\* the search, the type filter and the active advanced filters, and not at
\* all otherwise; every output entry is a comment of the collection.
C3_OutputIsFilteredTopLevel ==
  LET v == getTopLevelComments
  IN  /\ \A i \in 1..Len(comments) :
           Cardinality({k \in 1..Len(v) : v[k].id = comments[i].id})
             = IF /\ ~IsReply(comments[i])
                  /\ MatchesSearch(comments[i], searchTerm)
                  /\ MatchesType(comments[i], selectedCommentType)
                  /\ MatchesAdvanced(comments[i], filters)
               THEN 1 ELSE 0
      /\ \A k \in 1..Len(v) :
           \E i \in 1..Len(comments) : WithoutNumber(v[k]) = comments[i]

\* A collection with a reply and two top-level comments, one of which the
\* search removes.
C3_Witness ==
  /\ Len(comments) = 3
  /\ \E i \in 1..3 : IsReply(comments[i])
  /\ searchTerm = S_internal
  /\ Len(getTopLevelComments) = 1

\* The code-unit order a.author <= b.author of the original statement.
CodeUnitLeq(a, b) == a = b \/ codeUnitLess(a, b)

\* C4 as stated: every adjacent pair of the output is ordered by the key of
\* the selected sort option, with commenter meaning a.author <= b.author.
C4_SortByAuthorCodeUnits ==
  LET v == getTopLevelComments
  IN  \A k \in 1..(Len(v) - 1) :
        /\ sortBy = "timecode" => v[k].timestamp <= v[k + 1].timestamp
        /\ sortBy = "oldest" => v[k].createdAt <= v[k + 1].createdAt
        /\ sortBy = "newest" => v[k].createdAt >= v[k + 1].createdAt
        /\ sortBy = "commenter" => CodeUnitLeq(v[k].author, v[k + 1].author)

\* C4 (amended): every adjacent pair (a, b) of the output is ordered by the
\* key of the selected sort option: timecode a.timestamp <= b.timestamp (so
\* the general comments come first), oldest a.createdAt <= b.createdAt,
\* newest a.createdAt >= b.createdAt, and commenter
\* a.author.localeCompare(b.author) <= 0, the collation order of the
\* authors, which is not the order of their code units.
C4_SortCorrect ==
  LET v == getTopLevelComments
  IN  /\ \A k \in 1..(Len(v) - 1) :
           /\ sortBy = "timecode" => v[k].timestamp <= v[k + 1].timestamp
           /\ sortBy = "oldest" => v[k].createdAt <= v[k + 1].createdAt
           /\ sortBy = "newest" => v[k].createdAt >= v[k + 1].createdAt
           /\ sortBy = "commenter" =>
                localeCompare(v[k].author, v[k + 1].author) <= 0
      /\ sortBy = "timecode" =>
           \A k, l \in 1..Len(v) :
             (~IsTimeAnchored(v[k]) /\ IsTimeAnchored(v[l])) => k < l

\* Three comments shown by commenter: authors alice, Amy, Bob in that
\* order, Bob being first in the collection.
C4_Witness ==
  /\ sortBy = "commenter"
  /\ Len(getTopLevelComments) = 3
  /\ getTopLevelComments[1].author = S_alice
  /\ getTopLevelComments[2].author = S_Amy
  /\ getTopLevelComments[3].author = S_Bob
  /\ comments[1].author = S_Bob

\* The keys of two comments are equal under a sort option.
EqualSortKey(sortOption, a, b) ==
  CASE sortOption = "timecode" -> a.timestamp = b.timestamp
    [] sortOption = "oldest" -> a.createdAt = b.createdAt
    [] sortOption = "newest" -> a.createdAt = b.createdAt
    [] sortOption = "commenter" -> a.author = b.author

\* C5: the sort is stable.  Two comments of the output with equal keys
\* under the selected sort option (newest included) are in the output in
\* the order they have in the collection.
C5_SortStable ==
  UniqueIds(comments) =>
    LET v == getTopLevelComments
    IN  \A k, l \in 1..Len(v) :
          (k < l /\ EqualSortKey(sortBy, v[k], v[l]))
          => IndexOf(comments, v[k].id) < IndexOf(comments, v[l].id)

\* Under newest, two comments created at the same time are shown next to
\* each other, behind a newer one that follows them in the collection.
C5_Witness ==
  /\ sortBy = "newest"
  /\ Len(getTopLevelComments) = 3
  /\ getTopLevelComments[2].createdAt = getTopLevelComments[3].createdAt
  /\ getTopLevelComments[1].id = comments[3].id

\* C6: the type filter.  A top-level comment is internal iff its text
\* contains "internal" with that very case.  For the current search term,
\* advanced filters and sort option: all keeps everything, internal keeps
\* exactly the internal comments of the all output, public exactly the
\* others, in the same order; the two are disjoint and together make up
\* the all output.
C6_TypeFilter ==
  LET all == topLevelComments(comments, searchTerm, "all", filters, sortBy)
      pub == topLevelComments(comments, searchTerm, "public", filters, sortBy)
      int == topLevelComments(comments, searchTerm, "internal", filters,
                              sortBy)
      Ids(v) == {v[k].id : k \in 1..Len(v)}
  IN  /\ int = SelectSeq(all, LAMBDA c : includes(c.text, S_internal))
      /\ pub = SelectSeq(all, LAMBDA c : ~includes(c.text, S_internal))
      /\ Ids(pub) \cap Ids(int) = {}
      /\ Ids(pub) \cup Ids(int) = Ids(all)
      /\ Len(pub) + Len(int) = Len(all)
      /\ Ids(all) = {comments[i].id : i \in
                       {j \in 1..Len(comments) :
                          /\ ~IsReply(comments[j])
                          /\ MatchesSearch(comments[j], searchTerm)
                          /\ MatchesAdvanced(comments[j], filters)}}

\* The internal filter is on and shows "internal note" only, although
\* "Internal memo" is in the collection too.
C6_Witness ==
  /\ selectedCommentType = "internal"
  /\ \E i \in 1..Len(comments) :
       comments[i].text = S_Internal_memo /\ ~IsReply(comments[i])
  /\ Len(getTopLevelComments) = 1
  /\ getTopLevelComments[1].text = S_internal_note

\* C7: the search.  With a non-empty search term the output is the output
\* of the same query without a search term, restricted (in the same
\* order) to the comments whose text or author contains the term, case
\* ignored on both sides; with the empty term the search removes nothing:
\* every top-level comment that passes the type filter and the advanced
\* filters is in the output.
C7_Search ==
  LET v == getTopLevelComments
      unsearched == topLevelComments(comments, S_empty, selectedCommentType,
                                     filters, sortBy)
  IN  /\ searchTerm # <<>> =>
           v = SelectSeq(unsearched, LAMBDA c :
                 \/ ContainsIgnoringCase(c.text, searchTerm)
                 \/ ContainsIgnoringCase(c.author, searchTerm))
      /\ searchTerm = <<>> =>
           \A i \in 1..Len(comments) :
             (/\ ~IsReply(comments[i])
              /\ MatchesType(comments[i], selectedCommentType)
              /\ MatchesAdvanced(comments[i], filters))
             => \E k \in 1..Len(v) : v[k].id = comments[i].id

\* The search for "Bob" keeps the comment of author Bob and drops another
\* one (the term has an upper-case letter; text and author are lower-cased).
C7_Witness ==
  /\ searchTerm = S_Bob
  /\ Len(comments) = 2
  /\ ~IsReply(comments[1]) /\ ~IsReply(comments[2])
  /\ Len(getTopLevelComments) = 1
  /\ getTopLevelComments[1].author = S_Bob
  /\ ~ContainsIgnoringCase(getTopLevelComments[1].text, S_Bob)

\* C8: general comments.  Every top-level comment with timestamp < 0 that
\* passes the filters is in the output, carries no number (commentNumber is
\* 0 and the badge shows the placeholder "#G") and, under timecode, stands
\* before every time-anchored comment; every time-anchored comment of the
\* output carries a number >= 1, which the badge shows.
C8_GeneralComments ==
  UniqueIds(comments) =>
    LET v == getTopLevelComments
    IN  /\ \A i \in 1..Len(comments) :
             (/\ ~IsReply(comments[i])
              /\ comments[i].timestamp < 0
              /\ MatchesSearch(comments[i], searchTerm)
              /\ MatchesType(comments[i], selectedCommentType)
              /\ MatchesAdvanced(comments[i], filters))
             => \E k \in 1..Len(v) :
                  /\ v[k].id = comments[i].id
                  /\ v[k].commentNumber = 0
                  /\ numberLabel(v[k]) = "#G"
                  /\ sortBy = "timecode" =>
                       \A l \in 1..Len(v) : IsTimeAnchored(v[l]) => k < l
        /\ \A k \in 1..Len(v) :
             IsTimeAnchored(v[k]) =>
               /\ v[k].commentNumber >= 1
               /\ numberLabel(v[k]) = "#" \o ToString(v[k].commentNumber)

\* Under newest a general comment is shown last, with the placeholder,
\* behind the comments numbered #1 and #2.
C8_Witness ==
  /\ sortBy = "newest"
  /\ Len(getTopLevelComments) = 3
  /\ getTopLevelComments[3].timestamp < 0
  /\ getTopLevelComments[3].commentNumber = 0
  /\ numberLabel(getTopLevelComments[3]) = "#G"
  /\ numberLabel(getTopLevelComments[1]) = "#1"
  /\ numberLabel(getTopLevelComments[2]) = "#2"

\* C9: getReplies(parentId) is exactly the comments of the collection whose
\* parentId is the given id, each once, in the order of the collection, in
\* every state of the search, filter and sort settings.
C9_Replies ==
  UniqueIds(comments) =>
    \A p \in CommentIds \cup {"none"} :
      LET r == getReplies(p)
      IN  /\ \A i \in 1..Len(comments) :
               Cardinality({k \in 1..Len(r) : r[k] = comments[i]})
                 = IF IsReply(comments[i]) /\ comments[i].parentId = p
                   THEN 1 ELSE 0
          /\ \A k \in 1..Len(r) : \E i \in 1..Len(comments) : r[k] = comments[i]
          /\ \A k, l \in 1..Len(r) :
               k < l => IndexOf(comments, r[k].id) < IndexOf(comments, r[l].id)

\* Two replies of comment 1, the later timestamp first, under a search and
\* a sort that would reorder and remove them.
C9_Witness ==
  /\ Len(getReplies("1")) = 2
  /\ getReplies("1")[1].timestamp > getReplies("1")[2].timestamp
  /\ searchTerm = S_Bob
  /\ sortBy = "timecode"
  /\ selectedCommentType = "internal"

\* Every reply's parentId is the id of a top-level comment of the collection.
AllRepliesResolve(cs) ==
  \A i \in 1..Len(cs) :
    IsReply(cs[i]) =>
      \E j \in 1..Len(cs) : ~IsReply(cs[j]) /\ cs[j].id = cs[i].parentId

\* The rendered list holds every comment of the collection exactly once and
\* nothing else.
IsPartition(cs, rendered) ==
  /\ \A i \in 1..Len(cs) :
       Cardinality({k \in 1..Len(rendered) : rendered[k].id = cs[i].id}) = 1
  /\ \A k \in 1..Len(rendered) :
       \E i \in 1..Len(cs) : rendered[k].id = cs[i].id

\* C10: reply exclusivity.  With no search term, type filter all and no
\* advanced filter, the output together with getReplies(p.id) for every p
\* of the output holds every comment of the collection exactly once if and
\* only if every reply's parentId is the id of a top-level comment of the
\* collection.
C10_ReplyExclusivity ==
  UniqueIds(comments) =>
    (IsPartition(comments,
                 renderedComments(comments, S_empty, "all", NoFilters, sortBy))
       <=> AllRepliesResolve(comments))

\* A reply, its parent and a second reply of that parent: a partition.
C10_Witness ==
  /\ Len(comments) = 3
  /\ IsReply(comments[1]) /\ ~IsReply(comments[2]) /\ IsReply(comments[3])
  /\ AllRepliesResolve(comments)
  /\ Len(renderedComments(comments, S_empty, "all", NoFilters, sortBy)) = 3

\* C11: the deriver is read-only.  In every state, whatever the sort option,
\* type filter, search term and advanced filters are, a call of
\* getTopLevelComments, of getReplies (for any id) or of getCommentCounts
\* leaves the prop array with the same elements in the same order, each
\* with the same fields and values; so does a whole render.
C11_DeriverReadOnly ==
  /\ commentsAfterGetTopLevelComments(
       comments, searchTerm, selectedCommentType, filters, sortBy) = comments
  /\ \A id \in CommentIds : commentsAfterGetReplies(comments, id) = comments
  /\ commentsAfterGetCommentCounts(comments) = comments
  /\ commentsAfterRender(comments, searchTerm, selectedCommentType, filters,
                         sortBy) = comments

\* Three comments that the current sort option does not leave in collection
\* order, a reply among them, rendered with a non-empty output.
C11_Witness ==
  /\ Len(comments) = 3
  /\ \E i \in 1..3 : IsReply(comments[i])
  /\ LET v == getTopLevelComments
     IN  /\ Len(v) = 2
         /\ v[1].id = comments[3].id
         /\ getReplies(v[2].id) # <<>>
  /\ sortBy = "newest"

\* The comment carries a list of attachments with at least one entry.
HasAtLeastOneAttachment(c) ==
  "attachments" \in DOMAIN c /\ Len(c.attachments) >= 1

\* C12: the attachments filter.  Whenever filters.attachments is true, every
\* comment of the output has at least one attachment, whatever the search
\* term, type filter and sort option are: no comment of the collection whose
\* attachments list is missing or empty is in the output.
C12_AttachmentsFilter ==
  filters.attachments =>
    LET v == getTopLevelComments
    IN  /\ \A k \in 1..Len(v) : HasAtLeastOneAttachment(v[k])
        /\ \A i \in 1..Len(comments) :
             ~HasAtLeastOneAttachment(comments[i]) =>
               \A k \in 1..Len(v) : v[k].id # comments[i].id

\* A comment with an empty list, one with no list and one with an
\* attachment, with the filter on: the output is the third alone.
C12_Witness ==
  /\ filters.attachments
  /\ Len(comments) = 3
  /\ \E i \in 1..3 : ~IsReply(comments[i])
                       /\ "attachments" \notin DOMAIN comments[i]
  /\ \E i \in 1..3 : ~IsReply(comments[i])
                       /\ "attachments" \in DOMAIN comments[i]
                       /\ comments[i].attachments = <<>>
  /\ Len(getTopLevelComments) = 1

\* The toggles other than attachments.
InertKeys ==
  {"annotations", "completed", "incomplete", "unread", "mentionsAndReactions"}

\* Every setting of the filters that agrees with flt on attachments.
SameAttachments(flt) ==
  {f \in [FilterKeys -> BOOLEAN] : f.attachments = flt.attachments}

\* C13: inert toggles.  Whatever the collection, search term, type filter,
\* sort option and attachments toggle are, setting annotations, completed,
\* incomplete, unread and mentionsAndReactions to any values leaves the
\* output the same: the same comments in the same order with the same
\* numbers.
C13_InertToggles ==
  \A f \in SameAttachments(filters) :
    topLevelComments(comments, searchTerm, selectedCommentType, f, sortBy)
      = getTopLevelComments

\* An inert toggle is on and the output shows a comment without attachment.
C13_Witness ==
  /\ \E k \in InertKeys : filters[k]
  /\ \E k \in 1..Len(getTopLevelComments) :
       ~HasAtLeastOneAttachment(getTopLevelComments[k])
  /\ Len(getTopLevelComments) >= 2

\* The places of the top-level comments of the collection.
TopLevelPlaces(cs) == {i \in 1..Len(cs) : ~IsReply(cs[i])}

\* The text has the eight code units of "internal" somewhere in it.
TextHasInternal(c) ==
  \E i \in 1..(Len(c.text) - 7) : SubSeq(c.text, i, i + 7) = S_internal

\* C14: getCommentCounts counts the top-level comments only: all is their
\* number, internal the number of those whose text contains "internal"
\* (case-sensitively), public the number of the others, and all = public +
\* internal.  The counts are a function of the collection alone: they are
\* the same under every search term, type filter, advanced filter and sort
\* option the state may hold.
C14_CommentCounts ==
  LET n == getCommentCounts
      top == TopLevelPlaces(comments)
  IN  /\ n.all = Cardinality(top)
      /\ n.internal = Cardinality({i \in top : TextHasInternal(comments[i])})
      /\ n.public = Cardinality({i \in top : ~TextHasInternal(comments[i])})
      /\ n.all = n.public + n.internal

\* An internal reply next to one internal and one public top-level comment,
\* seen through a search and a type filter that hide both of them.
C14_Witness ==
  /\ Len(comments) = 3
  /\ \E i \in 1..3 : IsReply(comments[i]) /\ TextHasInternal(comments[i])
  /\ getCommentCounts = [all |-> 2, public |-> 1, internal |-> 1]
  /\ getTopLevelComments = <<>>
  /\ searchTerm # S_empty

\* C15: replies are never nested more than one level.  In every step of the
\* panel (opening a reply box, typing, sending, cancelling, the parent
\* adding or deleting comments, searching, sorting) that calls
\* onReplyComment, the parentId handed over is the id of a comment of the
\* collection that has no parentId, and of no comment that is a reply.
C15_ReplyToTopLevelOnly ==
  [][onReplyCommentCalls' # onReplyCommentCalls =>
       LET call == onReplyCommentCalls'[Len(onReplyCommentCalls')]
       IN  /\ \E i \in 1..Len(comments) :
                comments[i].id = call.parentId /\ ~IsReply(comments[i])
           /\ \A i \in 1..Len(comments) :
                comments[i].id = call.parentId => ~IsReply(comments[i])]_vars

\* A reply was sent to a comment that already has a reply shown under it,
\* its text trimmed, while a search was on.
C15_Witness ==
  /\ Len(onReplyCommentCalls) = 1
  /\ onReplyCommentCalls[1].text = S_ok
  /\ getReplies(onReplyCommentCalls[1].parentId) # <<>>
  /\ replyingTo = null
  /\ searchTerm = S_Bob

\* The reply at place i names a parent that is not in the collection.
IsDangling(cs, i) ==
  IsReply(cs[i]) /\ \A j \in 1..Len(cs) : cs[j].id # cs[i].parentId

\* C16: dangling replies.  A reply whose parentId is the id of no comment
\* of the collection is not in the output of getTopLevelComments and not in
\* getReplies(p.id) of any comment p of the output, so it is nowhere in the
\* rendered list; the output, the replies and the counts are all defined
\* for such a collection.
C16_DanglingReply ==
  LET v == getTopLevelComments
      rendered == renderedComments(comments, searchTerm, selectedCommentType,
                                   filters, sortBy)
  IN  \A i \in 1..Len(comments) :
        IsDangling(comments, i) =>
          /\ \A k \in 1..Len(v) :
               /\ v[k].id # comments[i].id
               /\ \A r \in 1..Len(getReplies(v[k].id)) :
                    getReplies(v[k].id)[r].id # comments[i].id
          /\ \A k \in 1..Len(rendered) : rendered[k].id # comments[i].id
          /\ getCommentCounts.all <= Len(comments) - 1

\* A comment with its reply and a reply to an absent comment: two of the
\* three are rendered.
C16_Witness ==
  /\ Len(comments) = 3
  /\ \E i \in 1..3 : IsDangling(comments, i)
  /\ Len(renderedComments(comments, searchTerm, selectedCommentType,
                          filters, sortBy)) = 2
  /\ Len(getTopLevelComments) = 1

\* Values that are neither a sort option nor a comment type.
OutOfContract == {null, "", "Newest", "archived", "undefined"}

\* C17: out-of-contract parameters fall back to the defaults.  In every
\* state, with a sortBy that is none of timecode, oldest, newest and
\* commenter the output is the output under timecode, and with a
\* selectedCommentType that is none of all, public and internal the output
\* is the output under all.
C17_FallBackToDefaults ==
  \A bad \in OutOfContract :
    /\ topLevelComments(comments, searchTerm, selectedCommentType, filters,
                        bad)
         = topLevelComments(comments, searchTerm, selectedCommentType,
                            filters, "timecode")
    /\ topLevelComments(comments, searchTerm, bad, filters, sortBy)
         = topLevelComments(comments, searchTerm, "all", filters, sortBy)

\* Two top-level comments held in the collection against their timestamps,
\* one internal and one not: an unknown sort option swaps them, an unknown
\* type shows both.
C17_Witness ==
  /\ OutOfContract \cap (SortOptions \cup CommentTypes) = {}
  /\ LET v == topLevelComments(comments, searchTerm, "archived", filters,
                               "Newest")
     IN  /\ Len(v) = 2
         /\ Len(comments) = 2
         /\ v[1].id = comments[2].id
         /\ v[1].timestamp < v[2].timestamp
         /\ TextHasInternal(v[1]) /\ ~TextHasInternal(v[2])

\* C18: idempotence.  In every state, a second call of getTopLevelComments
\* made right after a first one, with the collection as the first call left
\* it and the same search term, type filter, advanced filters and sort
\* option, returns what the first call returned: the same comments, in the
\* same order, with the same numbers.
C18_Idempotent ==
  LET first == getTopLevelComments
      left == commentsAfterGetTopLevelComments(
                comments, searchTerm, selectedCommentType, filters, sortBy)
      second == topLevelComments(left, searchTerm, selectedCommentType,
                                 filters, sortBy)
  IN  second = first

\* Two comments with the same timestamp that the sort by commenter puts in
\* the order opposite to the collection's: their numbers follow the
\* collection, so a call that reordered it would show in a second call.
C18_Witness ==
  /\ sortBy = "commenter"
  /\ Len(comments) = 2
  /\ LET v == getTopLevelComments
     IN  /\ Len(v) = 2
         /\ v[1].timestamp = v[2].timestamp
         /\ v[1].id = comments[2].id
         /\ v[1].commentNumber = 2

\* C19: the empty collection.  Whenever comments is empty, under every
\* search term, type filter, advanced filter and sort option,
\* getTopLevelComments returns the empty list, getReplies(id) is empty for
\* every id, and getCommentCounts is all = 0, public = 0, internal = 0.
C19_EmptyCollection ==
  comments = <<>> =>
    /\ getTopLevelComments = <<>>
    /\ \A id \in CommentIds \cup {null, ""} : getReplies(id) = <<>>
    /\ getCommentCounts = [all |-> 0, public |-> 0, internal |-> 0]
    /\ renderedComments(comments, searchTerm, selectedCommentType, filters,
                        sortBy) = <<>>

\* The collection is empty while a search, a type filter, a sort and the
\* attachments filter are set.
C19_Witness ==
  /\ comments = <<>>
  /\ searchTerm = S_internal
  /\ selectedCommentType = "internal"
  /\ sortBy = "commenter"
  /\ filters.attachments
  /\ Len(getTopLevelComments) = 0

\* C20: a draft is submitted at most once.  However often Send is clicked,
\* also during the 500 ms wait of the drawing save path while the draft is
\* still in the box and Send still enabled, onAddComment is called at most
\* one time for a draft: no two calls were made for the same draft, a draft
\* lasting from the reset before it to the reset that ends it.
C20_SubmittedAtMostOnce ==
  \A i, j \in 1..Len(onAddCommentCalls) :
    onAddCommentCalls[i].draft = onAddCommentCalls[j].draft => i = j

\* The draft state of the input is what it is right after mounting.
InputIsInitial(c, a, i, t, h, tools, emoji) ==
  /\ c = S_empty /\ a = <<>> /\ i = FALSE /\ t = TRUE
  /\ h = FALSE /\ tools = FALSE /\ emoji = FALSE

\* C21: submitting with a drawing.  A click on Send with a canvas present
\* and hasDrawing true calls nothing and resets nothing: it only sets its
\* timers, which hold the text, attachments, isInternal, attachTime and
\* hasDrawing of the click.  The forceSave timers of a click fire one at a
\* time and never more than 5 times; its onAddComment call is made when all
\* 5 have fired, once, with the trimmed text and the other four values as
\* the click saw them, whatever the input holds by then; the draft state is
\* reset in the step of that call and not before.
C21_DrawingSubmit ==
  [][/\ Len(pendingSubmits') > Len(pendingSubmits) =>
          LET c == pendingSubmits'[Len(pendingSubmits')]
          IN  /\ drawingCanvas # "none" /\ hasDrawing
              /\ trim(comment) # <<>>
              /\ c.saves = 0
              /\ c.comment = comment /\ c.attachments = attachments
              /\ c.isInternal = isInternal /\ c.attachTime = attachTime
              /\ c.hasDrawing = hasDrawing
              /\ onAddCommentCalls' = onAddCommentCalls
              /\ UNCHANGED <<comment, attachments, isInternal, attachTime,
                             hasDrawing, showDrawingTools, showEmojiPicker>>
     /\ Len(pendingSubmits') = Len(pendingSubmits) =>
          /\ \A k \in 1..Len(pendingSubmits) :
               /\ pendingSubmits'[k].saves \in
                    {pendingSubmits[k].saves, pendingSubmits[k].saves + 1}
               /\ pendingSubmits'[k].saves <= 5
          /\ pendingSubmits' # pendingSubmits =>
               /\ onAddCommentCalls' = onAddCommentCalls
               /\ UNCHANGED <<comment, attachments, isInternal, attachTime,
                              hasDrawing, showDrawingTools, showEmojiPicker>>
     /\ Len(pendingSubmits') < Len(pendingSubmits) =>
          LET c == pendingSubmits[1]
          IN  /\ c.saves = 5
              /\ pendingSubmits' = Tail(pendingSubmits)
              /\ onAddCommentCalls' =
                   Append(onAddCommentCalls,
                          [text |-> trim(c.comment),
                           attachments |-> c.attachments,
                           isInternal |-> c.isInternal,
                           attachTime |-> c.attachTime,
                           hasDrawing |-> c.hasDrawing, draft |-> c.draft])
              /\ InputIsInitial(comment', attachments', isInternal',
                                attachTime', hasDrawing', showDrawingTools',
                                showEmojiPicker')]_vars

\* The call of a click made with a file attached, internal, without the
\* time and with a drawing has been made, and the input is reset.
C21_Witness ==
  /\ pendingSubmits = <<>>
  /\ Len(onAddCommentCalls) = 1
  /\ onAddCommentCalls[1].text = S_ok
  /\ onAddCommentCalls[1].attachments = <<Attachment>>
  /\ onAddCommentCalls[1].isInternal
  /\ ~onAddCommentCalls[1].attachTime
  /\ onAddCommentCalls[1].hasDrawing
  /\ InputIsInitial(comment, attachments, isInternal, attachTime, hasDrawing,
                    showDrawingTools, showEmojiPicker)

\* C22: submitting without a drawing.  While the draft is blank after
\* trimming, handleSubmit can take no step: it calls nothing and changes no
\* state.  A step that calls onAddComment without a drawing to save is made
\* with a draft that is not blank, makes that one call, with the trimmed
\* text and the attachments, isInternal, attachTime and hasDrawing of the
\* input, sets no timer, leaves the input in its initial state (comment
\* empty, no attachments, public, time attached, no drawing, tools menu and
\* emoji picker closed) and calls onCancel once if the prop is given and
\* not at all if it is not; onCancel is called in no other step.
C22_PlainSubmit ==
  /\ [](trim(comment) = <<>> => ~ENABLED handleSubmit)
  /\ [][/\ Len(onAddCommentCalls') > Len(onAddCommentCalls) =>
             /\ trim(comment) # <<>>
             /\ onAddCommentCalls' =
                  Append(onAddCommentCalls,
                         [text |-> trim(comment), attachments |-> attachments,
                          isInternal |-> isInternal,
                          attachTime |-> attachTime,
                          hasDrawing |-> hasDrawing, draft |-> draft])
             /\ pendingSubmits' = pendingSubmits
             /\ InputIsInitial(comment', attachments', isInternal',
                               attachTime', hasDrawing', showDrawingTools',
                               showEmojiPicker')
             /\ onCancelCalls' =
                  onCancelCalls + (IF onCancel THEN 1 ELSE 0)
        /\ onCancelCalls' # onCancelCalls =>
             Len(onAddCommentCalls') > Len(onAddCommentCalls)]_vars

\* An internal comment of one emoji with a file, without the time, sent
\* after the canvas of its drawing went away, onCancel given: the call is
\* made, onCancel called and the input reset.
C22_Witness ==
  /\ Len(onAddCommentCalls) = 1
  /\ onAddCommentCalls[1].text = S_emoji
  /\ onAddCommentCalls[1].attachments = <<Attachment>>
  /\ onAddCommentCalls[1].isInternal
  /\ ~onAddCommentCalls[1].attachTime
  /\ onAddCommentCalls[1].hasDrawing
  /\ onCancelCalls = 1
  /\ pendingSubmits = <<>>
  /\ InputIsInitial(comment, attachments, isInternal, attachTime, hasDrawing,
                    showDrawingTools, showEmojiPicker)

\* C23: sending a reply.  While the reply text is blank after trimming,
\* handleReply can take no step: it calls nothing and leaves replyText and
\* replyingTo as they are.  A step that calls onReplyComment is made with a
\* text that is not blank, makes that one call, with the id of the comment
\* whose reply box is open and the trimmed text, and leaves replyText empty
\* and replyingTo null.  A step that closes the reply box without a call
\* (handleCancel) leaves replyText empty and replyingTo null.
C23_SendReply ==
  /\ [](trim(replyText) = <<>> => ~ENABLED handleReply)
  /\ [][/\ onReplyCommentCalls' # onReplyCommentCalls =>
             /\ trim(replyText) # <<>>
             /\ replyingTo # null
             /\ onReplyCommentCalls' =
                  Append(onReplyCommentCalls,
                         [parentId |-> replyingTo, text |-> trim(replyText)])
             /\ replyText' = S_empty
             /\ replyingTo' = null
        /\ (replyingTo # null /\ replyingTo' = null) =>
             replyText' = S_empty]_vars

\* A padded reply to comment 1 was sent under the sort by newest: the call
\* carries the trimmed text and the box is closed and empty.
C23_Witness ==
  /\ onReplyCommentCalls = <<[parentId |-> "1", text |-> S_ok]>>
  /\ replyText = S_empty
  /\ replyingTo = null
  /\ sortBy = "newest"
  /\ Len(comments) = 3

\* C24: search and filters apply to top-level comments only.  In every
\* panel state a reply of the collection is in the rendered list if and
\* only if its parentId is the id of a comment of the output of
\* getTopLevelComments, whether or not the reply itself matches the search
\* term, the type filter or the attachments filter.
C24_RepliesFollowParent ==
  UniqueIds(comments) =>
    LET v == getTopLevelComments
        rendered == renderedComments(comments, searchTerm,
                                     selectedCommentType, filters, sortBy)
    IN  \A i \in 1..Len(comments) :
          IsReply(comments[i]) =>
            ((\E k \in 1..Len(rendered) : rendered[k].id = comments[i].id)
               <=> (\E k \in 1..Len(v) : v[k].id = comments[i].parentId))

\* A search for "internal" shows one comment; a reply whose text matches
\* the search is not shown, its parent being in the collection but not in
\* the output.
C24_Witness ==
  /\ searchTerm = S_internal
  /\ Len(comments) = 3
  /\ Len(renderedComments(comments, searchTerm, selectedCommentType, filters,
                          sortBy)) = 1
  /\ \E i, j \in 1..3 :
       /\ IsReply(comments[i])
       /\ ContainsIgnoringCase(comments[i].text, searchTerm)
       /\ comments[j].id = comments[i].parentId
       /\ ~IsReply(comments[j])

\* C25: the drawing tools menu is open only while drawing mode is active:
\* in every state, showDrawingTools = true implies isDrawingMode = true.
C25_ToolsOnlyInDrawingMode == showDrawingTools => isDrawingMode

\* C26: at most one polling interval is active at any time, none is active
\* while isDrawingMode is false, and none remains after unmount.
C26_PollTimer ==
  /\ activeIntervals <= 1
  /\ ~isDrawingMode => activeIntervals = 0
  /\ ~mounted => activeIntervals = 0

\* The input was unmounted in drawing mode, after currentTime and hasDrawing
\* had changed: an interval was started, restarted and cleared.
C26_Witness ==
  /\ ~mounted
  /\ isDrawingMode
  /\ hasDrawing
  /\ currentTime # 0

\* C27: a step of handleClearFilters leaves every advanced filter toggle
\* false, searchTerm empty, selectedCommentType all and sortBy timecode, so
\* that the output of getTopLevelComments is every top-level comment of the
\* collection, once each, in ascending timestamp order; replyingTo,
\* replyText and the attachment viewer state are what they were before.
C27_ClearFilters ==
  [][handleClearFilters =>
       /\ \A k \in FilterKeys : ~filters'[k]
       /\ searchTerm' = <<>>
       /\ selectedCommentType' = "all"
       /\ sortBy' = "timecode"
       /\ LET v == topLevelComments(comments', searchTerm',
                                    selectedCommentType', filters', sortBy')
          IN  /\ Len(v) = Cardinality(TopLevelPlaces(comments'))
              /\ \A i \in TopLevelPlaces(comments') :
                   \E k \in 1..Len(v) : v[k].id = comments'[i].id
              /\ \A k \in 1..(Len(v) - 1) :
                   v[k].timestamp <= v[k + 1].timestamp
       /\ replyingTo' = replyingTo
       /\ replyText' = replyText
       /\ selectedAttachment' = selectedAttachment
       /\ selectedAttachmentIndex' = selectedAttachmentIndex
       /\ isAttachmentViewerOpen' = isAttachmentViewerOpen]_vars

\* The query is in its cleared state while a reply is being typed and the
\* viewer shows the second attachment of a comment, over two top-level
\* comments that the collection holds in descending timestamp order.
C27_Witness ==
  /\ filters = NoFilters
  /\ searchTerm = <<>>
  /\ selectedCommentType = "all"
  /\ sortBy = "timecode"
  /\ replyingTo # null
  /\ replyText = S_ok_padded
  /\ isAttachmentViewerOpen
  /\ selectedAttachmentIndex = 1
  /\ Len(comments) = 2
  /\ TopLevelPlaces(comments) = {1, 2}
  /\ comments[1].timestamp > comments[2].timestamp

====
